---- MODULE Spec2Model ----
(***************************************************************************)
(* A model of the presidio_demo command-line anonymizer:                   *)
(*   - src/src/connectors/openai_connector.py : predict_with_gpt_4, the    *)
(*     completion client and its retry loop            (SpecClient)        *)
(*   - src/src/llm_recognizer.py : LlmRecognizer.__init__ / analyze /       *)
(*     _find_text_indices                              (SpecRecognizer)    *)
(*   - src/anonymize_folder.py : main, process_file    (SpecMain)          *)
(* Python strings that the code searches in are modelled as sequences of   *)
(* one-character strings, so that str.find and the `in` operator are       *)
(* computed and not assumed.                                               *)
(***************************************************************************)
EXTENDS Integers, Sequences, FiniteSets, TLC

VARIABLES
    \* ---- predict_with_gpt_4 (openai_connector.py) ----
    cpc,             \* control point of predict_with_gpt_4
    api_key,         \* os.getenv("OPENAI_API_KEY"): "unread", "set", "missing"
    retry_count,     \* local retry_count
    provider_calls,  \* outcomes of client.chat.completions.create, in call order
    response,        \* local response (NoResponse while unbound)
    slept,           \* seconds spent in sleep(2 ** retry_count)
    c_result,        \* what the call gave its caller: returned value or raised error
    \* ---- LlmRecognizer (llm_recognizer.py) ----
    rpc,             \* "new", "ready" (constructed), then the control point of analyze
    model_name,      \* self.model_name
    custom_entities, \* keys of self.custom_entities
    supported_entities, \* self.supported_entities
    a_text,          \* analyze's text
    a_entities,      \* analyze's entities, after the default of lines 74-75
    prompt,          \* the entity types the prompt names: standard and custom
    llm_calls,       \* calls of predict_with_gpt_4 made by analyze
    response_list,   \* the parsed JSON array
    a_idx,           \* position of the for loop in response_list
    recognizer_results, \* recognizer_results
    a_error,         \* the exception that left analyze, "none" otherwise
    \* ---- main / process_file (anonymize_folder.py) ----
    mpc,             \* control point of main and, inside the loop, of process_file
    args,            \* the parsed arguments main branches on
    input_exists,    \* whether the input folder exists on disk
    m_custom,        \* custom_entities as load_custom_entities returned it
    output_folder_created, \* the output folder exists because main made it
    entities,        \* the entities list handed to process_file
    analyzer_initialized,  \* analyzer_engine(...) of line 220 was called
    files_to_process,      \* the files found, by kind
    f_idx,           \* position of the for loop in files_to_process
    file_count, processed_count, entity_count, error_count,
    pf_results,      \* len(results) of the file in work
    m_ret,           \* what process_file gave main for the file in work
    files_read,      \* files whose text was read
    analyze_calls,   \* the calls of analyze(...): file, entities, custom_entities
    outputs,         \* files whose anonymized text was written
    error_log,       \* logger.error records: <<file, message>>
    counted,         \* per finished iteration, the counter it incremented
    pf_log           \* per started file, the steps of process_file that succeeded
                     \* on it, in order, and len(results) of its analysis

clientVars == <<cpc, api_key, retry_count, provider_calls, response, slept, c_result>>

recognizerVars == <<rpc, model_name, custom_entities, supported_entities, a_text,
                    a_entities, prompt, llm_calls, response_list, a_idx,
                    recognizer_results, a_error>>

mainVars == <<mpc, args, input_exists, m_custom, output_folder_created, entities,
              analyzer_initialized, files_to_process, f_idx, file_count,
              processed_count, entity_count, error_count, pf_results, m_ret,
              files_read, analyze_calls, outputs, error_log, counted, pf_log>>

vars == <<clientVars, recognizerVars, mainVars>>

Range(s) == {s[i] : i \in 1..Len(s)}

Min(S) == CHOOSE x \in S : \A y \in S : x <= y

\* All sequences over S of length at most n.
RECURSIVE SeqsUpTo(_, _)
SeqsUpTo(S, n) ==
    IF n = 0 THEN {<<>>}
    ELSE LET shorter == SeqsUpTo(S, n - 1)
         IN  shorter \cup {Append(q, x) : q \in {t \in shorter : Len(t) = n - 1}, x \in S}

RECURSIVE Pow2(_)
Pow2(n) == IF n = 0 THEN 1 ELSE 2 * Pow2(n - 1)

(***************************************************************************)
(* predict_with_gpt_4                                                      *)
(***************************************************************************)

\* max_retries = 3
max_retries == 3

\* Completion texts the provider may answer with.
Completions == {"completion_1", "completion_2"}

\* Exceptions client.chat.completions.create can raise.  The first five are
\* classes of the openai package; OtherException stands for any exception
\* that is no openai.APIError (for example a TypeError inside the client).
ErrorClasses == {"RateLimitError", "APIConnectionError", "APITimeoutError",
                 "AuthenticationError", "BadRequestError", "OtherException"}

\* The direct base class of each exception class (openai._exceptions).
Base(cls) ==
    CASE cls = "RateLimitError"      -> "APIStatusError"
      [] cls = "AuthenticationError" -> "APIStatusError"
      [] cls = "BadRequestError"     -> "APIStatusError"
      [] cls = "APIStatusError"      -> "APIError"
      [] cls = "APITimeoutError"     -> "APIConnectionError"
      [] cls = "APIConnectionError"  -> "APIError"
      [] cls = "APIError"            -> "OpenAIError"
      [] cls = "OpenAIError"         -> "Exception"
      [] cls = "OtherException"      -> "Exception"
      [] OTHER                       -> "BaseException"

RECURSIVE IsInstance(_, _)
IsInstance(cls, of) ==
    IF cls = of THEN TRUE
    ELSE IF cls = "BaseException" THEN FALSE
    ELSE IsInstance(Base(cls), of)

\* except (openai.APIError, openai.APIConnectionError, openai.RateLimitError)
Caught(cls) ==
    \/ IsInstance(cls, "APIError")
    \/ IsInstance(cls, "APIConnectionError")
    \/ IsInstance(cls, "RateLimitError")

ProviderOutcomes ==
    [kind : {"ok"}, content : Completions, cls : {"none"}]
        \cup [kind : {"error"}, content : {"none"}, cls : ErrorClasses]

NoResponse == "unbound"

\* while retry_count < max_retries
LoopGuard(rc) == rc < max_retries

ShouldRaise_Late(rc) == rc = max_retries + 1

\* if retry_count == max_retries: raise
ShouldRaise(rc) == rc = max_retries

ClientInit ==
    /\ cpc = "start"
    /\ api_key = "unread"
    /\ retry_count = 0
    /\ provider_calls = <<>>
    /\ response = NoResponse
    /\ slept = 0
    /\ c_result = [kind |-> "none", value |-> "none"]

\* lines 17-27: read the credential; without it raise ValueError before any call.
LoadKey ==
    /\ cpc = "start"
    /\ \E present \in BOOLEAN :
        IF present
        THEN /\ api_key' = "set"
             /\ cpc' = IF LoopGuard(retry_count) THEN "loop" ELSE "after_loop"
             /\ c_result' = c_result
        ELSE /\ api_key' = "missing"
             /\ cpc' = "raised"
             /\ c_result' = [kind |-> "raised", value |-> "ValueError"]
    /\ UNCHANGED <<retry_count, provider_calls, response, slept>>
    /\ UNCHANGED <<recognizerVars, mainVars>>

\* lines 29-47: one pass of the loop body up to the sleep: the provider call
\* and the try/except around it.
Attempt ==
    /\ cpc = "loop"
    /\ \E out \in ProviderOutcomes :
        /\ provider_calls' = Append(provider_calls, out)
        /\ IF out.kind = "ok"
           THEN \* response bound, break
                /\ response' = out.content
                /\ cpc' = "after_loop"
                /\ UNCHANGED <<retry_count, c_result>>
           ELSE IF Caught(out.cls)
           THEN /\ retry_count' = retry_count + 1
                /\ response' = response
                /\ IF ShouldRaise(retry_count + 1)
                   THEN /\ cpc' = "raised"
                        /\ c_result' = [kind |-> "raised", value |-> out.cls]
                   ELSE /\ cpc' = "sleep"
                        /\ c_result' = c_result
           ELSE \* not caught: the exception leaves the function
                /\ cpc' = "raised"
                /\ c_result' = [kind |-> "raised", value |-> out.cls]
                /\ UNCHANGED <<retry_count, response>>
    /\ UNCHANGED <<api_key, slept>>
    /\ UNCHANGED <<recognizerVars, mainVars>>

\* line 48, then the loop test of line 29
Backoff ==
    /\ cpc = "sleep"
    /\ slept' = slept + Pow2(retry_count)
    /\ cpc' = IF LoopGuard(retry_count) THEN "loop" ELSE "after_loop"
    /\ UNCHANGED <<api_key, retry_count, provider_calls, response, c_result>>
    /\ UNCHANGED <<recognizerVars, mainVars>>

\* lines 49-50: reading an unbound local raises UnboundLocalError
Finish ==
    /\ cpc = "after_loop"
    /\ IF response = NoResponse
       THEN /\ cpc' = "raised"
            /\ c_result' = [kind |-> "raised", value |-> "UnboundLocalError"]
       ELSE /\ cpc' = "returned"
            /\ c_result' = [kind |-> "returned", value |-> response]
    /\ UNCHANGED <<api_key, retry_count, provider_calls, response, slept>>
    /\ UNCHANGED <<recognizerVars, mainVars>>

ClientNext == LoadKey \/ Attempt \/ Backoff \/ Finish

(***************************************************************************)
(* LlmRecognizer                                                           *)
(***************************************************************************)

\* Longest text analysed, and most objects in a parsed response.
MaxTextLen == 2
MaxEntries == 2

\* Characters of the analysed text: a letter in both cases, so that a
\* case-sensitive search differs from a case-insensitive one.
Alphabet == {"a", "A"}

Texts == SeqsUpTo(Alphabet, MaxTextLen)

\* entity_text values the model may answer with: the empty string, strings
\* that occur in the text and strings that do not.
EntityTexts == SeqsUpTo(Alphabet, MaxTextLen - 1)

\* ENTITIES
ENTITIES == {"LOCATION", "PERSON", "ORGANIZATION"}

\* Model names: "gpt_4o" (from --model OpenAI/GPT_4o), "ner-english-large"
\* (from --model flair/ner-english-large) and "gpt_4".
GPT_4O == <<"g", "p", "t", "_", "4", "o">>
NER_ENGLISH_LARGE == <<"n", "e", "r", "-", "e", "n", "g", "l", "i", "s", "h",
                       "-", "l", "a", "r", "g", "e">>
GPT_4 == <<"g", "p", "t", "_", "4">>
ModelNames == {GPT_4O, NER_ENGLISH_LARGE, GPT_4}

\* custom_entities arguments: none, or one custom type.
CustomEntityChoices == {{}, {"EMPLOYEE_ID"}}

\* entities arguments of analyze.
RequestedLists == {<<>>, <<"PERSON">>, <<"PERSON", "EMPLOYEE_ID">>}

\* entity_type values the model may answer with.
ResponseTypes == {"PERSON", "EMAIL"}

ResponseEntries == [entity_type : ResponseTypes, entity_text : EntityTexts]

\* Parsed responses.  `[\s*\{.*?\}\s*\]` matches only an array that holds an
\* object, so a parsed list that reaches the loop is a list of objects; the
\* empty list stands for an array whose objects the loop finds nothing in.
ResponseLists == SeqsUpTo(ResponseEntries, MaxEntries)

\* str.find(sub): the lowest index at which sub occurs in text, -1 if none.
Find(text, sub) ==
    LET at == {i \in 0..(Len(text) - Len(sub)) :
                   SubSeq(text, i + 1, i + Len(sub)) = sub}
    IN  IF at = {} THEN -1 ELSE Min(at)

\* Python's None.
None == <<>>

\* _find_text_indices(text, substring): None, or the pair (start, end)
_find_text_indices(text, substring) ==
    LET start == Find(text, substring)
    IN  IF start = -1 THEN None ELSE <<start, start + Len(substring)>>

ModelSupported_Any(name) == TRUE

\* "gpt_4o" in self.model_name
ModelSupported(name) == Find(name, GPT_4O) # -1

RecognizerInit ==
    /\ rpc = "new"
    /\ model_name = <<>>
    /\ custom_entities = {}
    /\ supported_entities = {}
    /\ a_text = <<>>
    /\ a_entities = <<>>
    /\ prompt = [standard |-> {}, custom |-> {}]
    /\ llm_calls = 0
    /\ response_list = <<>>
    /\ a_idx = 0
    /\ recognizer_results = <<>>
    /\ a_error = "none"

\* __init__: no check of model_name; supported_entities defaults to ENTITIES
\* and is widened by the custom entity names.
Construct ==
    /\ rpc = "new"
    /\ \E name \in ModelNames, custom \in CustomEntityChoices :
        /\ model_name' = name
        /\ custom_entities' = custom
        /\ supported_entities' = ENTITIES \cup custom
    /\ rpc' = "ready"
    /\ UNCHANGED <<a_text, a_entities, prompt, llm_calls, response_list, a_idx,
                   recognizer_results, a_error>>
    /\ UNCHANGED <<clientVars, mainVars>>

\* analyze, lines 74-129: default of entities, the prompt, the model check.
AnalyzeBegin ==
    /\ rpc = "ready"
    /\ \E text \in Texts, requested \in RequestedLists :
        LET ents == IF requested = <<>>
                    THEN CHOOSE q \in [1..Cardinality(supported_entities) -> supported_entities] :
                             Range(q) = supported_entities
                    ELSE requested
        IN  /\ a_text' = text
            /\ a_entities' = ents
            /\ prompt' = [standard |-> {e \in Range(ents) : e \notin custom_entities},
                          custom   |-> {e \in Range(ents) : e \in custom_entities}]
    /\ IF ModelSupported(model_name)
       THEN /\ rpc' = "predict"
            /\ a_error' = a_error
       ELSE /\ rpc' = "raised"
            /\ a_error' = "ValueError: Invalid Model Name"
    /\ UNCHANGED <<model_name, custom_entities, supported_entities, llm_calls,
                   response_list, a_idx, recognizer_results>>
    /\ UNCHANGED <<clientVars, mainVars>>

\* lines 127-134: predict_with_gpt_4 returns a completion or raises (see
\* SpecClient), and _extract_json_from_response parses it or raises ValueError.
Predict ==
    /\ rpc = "predict"
    /\ llm_calls' = llm_calls + 1
    /\ \/ /\ rpc' = "raised"
          /\ \E e \in {"ProviderError", "ValueError: No JSON array found in the response",
                      "JSONDecodeError"} : a_error' = e
          /\ UNCHANGED <<response_list, a_idx>>
       \/ /\ \E parsed \in ResponseLists : response_list' = parsed
          /\ a_idx' = 1
          /\ rpc' = "loop"
          /\ a_error' = a_error
    /\ UNCHANGED <<model_name, custom_entities, supported_entities, a_text, a_entities,
                   prompt, recognizer_results>>
    /\ UNCHANGED <<clientVars, mainVars>>

\* lines 137-153: one pass of the for loop.  Unpacking None into start, end
\* raises TypeError.
LoopEntry ==
    /\ rpc = "loop"
    /\ a_idx <= Len(response_list)
    /\ LET entry == response_list[a_idx]
           found == _find_text_indices(a_text, entry.entity_text)
       IN  IF found = None
           THEN /\ rpc' = "raised"
                /\ a_error' = "TypeError: cannot unpack non-iterable NoneType object"
                /\ UNCHANGED <<a_idx, recognizer_results>>
           ELSE /\ recognizer_results' = Append(recognizer_results,
                        [entity_type |-> entry.entity_type,
                         start |-> found[1], end |-> found[2]])
                /\ a_idx' = a_idx + 1
                /\ UNCHANGED <<rpc, a_error>>
    /\ UNCHANGED <<model_name, custom_entities, supported_entities, a_text, a_entities,
                   prompt, llm_calls, response_list>>
    /\ UNCHANGED <<clientVars, mainVars>>

\* line 159
AnalyzeReturn ==
    /\ rpc = "loop"
    /\ a_idx > Len(response_list)
    /\ rpc' = "returned"
    /\ UNCHANGED <<model_name, custom_entities, supported_entities, a_text, a_entities,
                   prompt, llm_calls, response_list, a_idx, recognizer_results, a_error>>
    /\ UNCHANGED <<clientVars, mainVars>>

RecognizerNext == Construct \/ AnalyzeBegin \/ Predict \/ LoopEntry \/ AnalyzeReturn

(***************************************************************************)
(* main and process_file                                                   *)
(***************************************************************************)

\* Most files in the input folder, and most spans found in one file.
MaxFiles == 2
MaxSpans == 1

\* Kinds of file in the input folder: UTF-8 text, a file is_binary_file
\* classifies as binary, and a file that cannot be opened.
FileKinds == {"text", "binary", "unreadable"}

\* --entities: omitted (None), given without a value ([]), or given.
EntitiesArgs == {[given |-> FALSE, list |-> {}],
                 [given |-> TRUE,  list |-> {}],
                 [given |-> TRUE,  list |-> {"PERSON"}]}

\* --custom_entities: no path, a file that does not load, or a file defining
\* these names ("PERSON" collides with a standard tag).
CustomFiles == {[path |-> FALSE, loads |-> FALSE, names |-> {}],
                [path |-> TRUE,  loads |-> FALSE, names |-> {}],
                [path |-> TRUE,  loads |-> TRUE,  names |-> {"EMPLOYEE_ID"}],
                [path |-> TRUE,  loads |-> TRUE,  names |-> {"PERSON"}]}

\* load_custom_entities(json_path): None without a path or when the file does
\* not load or is malformed, else the dictionary.
load_custom_entities(file) ==
    IF ~file.path THEN [loaded |-> FALSE, names |-> {}]
    ELSE IF ~file.loads THEN [loaded |-> FALSE, names |-> {}]
    ELSE [loaded |-> TRUE, names |-> file.names]

\* `if custom_entities:` is false for None and for an empty dictionary.
Truthy(custom) == custom.loaded /\ custom.names # {}

\* get_supported_entities(model_package, model_name) of src.presidio_helpers:
\* its arguments are the model alone, so what it returns is one of the
\* model's entity sets, whatever the custom entity file holds.
SupportedEntitySets == {ENTITIES, ENTITIES \cup {"EMAIL_ADDRESS"}}

\* lines 195-202: with --entities the custom names are added to the list,
\* without it the list is what get_supported_entities returned.
EntitiesToDetect(a, custom, supported) ==
    IF a.given /\ a.list # {}
    THEN IF Truthy(custom) THEN a.list \cup custom.names ELSE a.list
    ELSE supported

InputFolderMissing_Never(exists) == FALSE

is_binary_file_Never(kind) == FALSE

\* if not input_folder.exists()
InputFolderMissing(exists) == ~exists

\* is_binary_file(file_path): a file that cannot be opened falls into the
\* bare except and is reported binary.
is_binary_file(kind) == kind \in {"binary", "unreadable"}

\* What a try block of process_file gave main.
Returned(n) == [kind |-> "value", none |-> FALSE, value |-> n]
Escaped == [kind |-> "exception", none |-> FALSE, value |-> 0]
NoReturn == [kind |-> "none", none |-> FALSE, value |-> 0]

ErrorCountAfterException_Same(ec) == ec

\* except Exception: error_count += 1
ErrorCountAfterException(ec) == ec + 1

\* pf_log after the file in work passed one more step of process_file.
StepDone(log, i, step, spans) ==
    [log EXCEPT ![i] = [steps |-> Append(@.steps, step), spans |-> spans]]

MainInit ==
    /\ mpc = "start"
    /\ args = [entities |-> [given |-> FALSE, list |-> {}],
               custom_file |-> [path |-> FALSE, loads |-> FALSE, names |-> {}]]
    /\ input_exists = FALSE
    /\ m_custom = [loaded |-> FALSE, names |-> {}]
    /\ output_folder_created = FALSE
    /\ entities = {}
    /\ analyzer_initialized = FALSE
    /\ files_to_process = <<>>
    /\ f_idx = 0
    /\ file_count = 0
    /\ processed_count = 0
    /\ entity_count = 0
    /\ error_count = 0
    /\ pf_results = 0
    /\ m_ret = NoReturn
    /\ files_read = {}
    /\ analyze_calls = {}
    /\ outputs = {}
    /\ error_log = <<>>
    /\ counted = <<>>
    /\ pf_log = <<>>

\* lines 180-183; the folder --input_folder names exists or does not
ParseArgs ==
    /\ mpc = "start"
    /\ \E e \in EntitiesArgs, c \in CustomFiles :
        args' = [entities |-> e, custom_file |-> c]
    /\ input_exists' \in BOOLEAN
    /\ mpc' = "load_custom"
    /\ UNCHANGED <<m_custom, output_folder_created, entities,
                   analyzer_initialized, files_to_process, f_idx, file_count,
                   processed_count, entity_count, error_count, pf_results, m_ret,
                   files_read, analyze_calls, outputs, error_log, counted>>
    /\ UNCHANGED pf_log
    /\ UNCHANGED <<clientVars, recognizerVars>>

\* lines 185-188
LoadCustomEntities ==
    /\ mpc = "load_custom"
    /\ m_custom' = load_custom_entities(args.custom_file)
    /\ error_log' = IF args.custom_file.path /\ ~args.custom_file.loads
                    THEN Append(error_log, <<0, "Error loading custom entities file">>)
                    ELSE error_log
    /\ mpc' = "make_output"
    /\ UNCHANGED <<args, input_exists, output_folder_created, entities,
                   analyzer_initialized, files_to_process, f_idx, file_count,
                   processed_count, entity_count, error_count, pf_results, m_ret,
                   files_read, analyze_calls, outputs, counted>>
    /\ UNCHANGED pf_log
    /\ UNCHANGED <<clientVars, recognizerVars>>

\* lines 190-192: mkdir makes the folder, or raises and ends the run
MakeOutputFolder ==
    /\ mpc = "make_output"
    /\ \/ /\ output_folder_created' = TRUE
          /\ mpc' = "get_entities"
       \/ /\ output_folder_created' = FALSE
          /\ mpc' = "crashed"
    /\ UNCHANGED <<args, input_exists, m_custom, entities,
                   analyzer_initialized, files_to_process, f_idx, file_count,
                   processed_count, entity_count, error_count, pf_results, m_ret,
                   files_read, analyze_calls, outputs, error_log, counted>>
    /\ UNCHANGED pf_log
    /\ UNCHANGED <<clientVars, recognizerVars>>

\* lines 194-202
GetEntities ==
    /\ mpc = "get_entities"
    /\ \E supported \in SupportedEntitySets :
        entities' = EntitiesToDetect(args.entities, m_custom, supported)
    /\ mpc' = "check_input"
    /\ UNCHANGED <<args, input_exists, m_custom, output_folder_created,
                   analyzer_initialized, files_to_process, f_idx, file_count,
                   processed_count, entity_count, error_count, pf_results, m_ret,
                   files_read, analyze_calls, outputs, error_log, counted>>
    /\ UNCHANGED pf_log
    /\ UNCHANGED <<clientVars, recognizerVars>>

\* lines 204-220: the existence check; then the counters and the analyzer,
\* whose construction may raise and end the run
CheckInputAndInit ==
    /\ mpc = "check_input"
    /\ IF InputFolderMissing(input_exists)
       THEN /\ error_log' = Append(error_log, <<0, "Input folder does not exist">>)
            /\ mpc' = "returned"
            /\ UNCHANGED <<analyzer_initialized, file_count, processed_count,
                           entity_count, error_count>>
       ELSE /\ error_log' = error_log
            /\ file_count' = 0
            /\ processed_count' = 0
            /\ entity_count' = 0
            /\ error_count' = 0
            /\ \/ /\ analyzer_initialized' = TRUE
                  /\ mpc' = "scan"
               \/ /\ analyzer_initialized' = FALSE
                  /\ mpc' = "crashed"
    /\ UNCHANGED <<args, input_exists, m_custom, output_folder_created, entities,
                   files_to_process, f_idx, pf_results, m_ret,
                   files_read, analyze_calls, outputs, counted>>
    /\ UNCHANGED pf_log
    /\ UNCHANGED <<clientVars, recognizerVars>>

\* lines 222-231: the files under the input folder (none when it is missing)
Scan ==
    /\ mpc = "scan"
    /\ \E found \in SeqsUpTo(FileKinds, MaxFiles) :
        files_to_process' = IF input_exists THEN found ELSE <<>>
    /\ f_idx' = 1
    /\ mpc' = "loop"
    /\ UNCHANGED <<args, input_exists, m_custom, output_folder_created, entities,
                   analyzer_initialized, file_count,
                   processed_count, entity_count, error_count, pf_results, m_ret,
                   files_read, analyze_calls, outputs, error_log, counted>>
    /\ UNCHANGED pf_log
    /\ UNCHANGED <<clientVars, recognizerVars>>

\* lines 234-241: the next file: file_count, the output path and its parent
\* folder (mkdir may raise outside the try block and end the run)
NextFile ==
    /\ mpc = "loop"
    /\ f_idx <= Len(files_to_process)
    /\ file_count' = file_count + 1
    /\ \/ mpc' = "pf_binary"
       \/ mpc' = "crashed"
    /\ pf_results' = 0
    /\ m_ret' = NoReturn
    /\ UNCHANGED <<args, input_exists, m_custom, output_folder_created, entities,
                   analyzer_initialized, files_to_process, f_idx,
                   processed_count, entity_count, error_count,
                   files_read, analyze_calls, outputs, error_log, counted>>
    /\ pf_log' = Append(pf_log, [steps |-> <<>>, spans |-> 0])
    /\ UNCHANGED <<clientVars, recognizerVars>>

\* process_file lines 87-93 (an exception outside its try blocks escapes)
PfBinaryCheck ==
    /\ mpc = "pf_binary"
    /\ \/ /\ m_ret' = Escaped
          /\ mpc' = "account"
          /\ error_log' = error_log
       \/ IF is_binary_file(files_to_process[f_idx])
          THEN /\ error_log' = Append(error_log, <<f_idx, "Skipping binary file">>)
               /\ m_ret' = Returned(0)
               /\ mpc' = "account"
          ELSE /\ mpc' = "pf_read"
               /\ UNCHANGED <<m_ret, error_log>>
    /\ UNCHANGED <<args, input_exists, m_custom, output_folder_created, entities,
                   analyzer_initialized, files_to_process, f_idx, file_count,
                   processed_count, entity_count, error_count, pf_results,
                   files_read, analyze_calls, outputs, counted>>
    /\ pf_log' = IF mpc' = "pf_read"
                THEN StepDone(pf_log, f_idx, "binary_check", 0) ELSE pf_log
    /\ UNCHANGED <<clientVars, recognizerVars>>

\* process_file lines 95-111
PfRead ==
    /\ mpc = "pf_read"
    /\ \/ /\ files_read' = files_read \cup {f_idx}
          /\ mpc' = "pf_analyze"
          /\ UNCHANGED <<m_ret, error_log>>
       \/ /\ error_log' = Append(error_log, <<f_idx, "Error reading file">>)
          /\ m_ret' = Returned(0)
          /\ mpc' = "account"
          /\ UNCHANGED files_read
    /\ UNCHANGED <<args, input_exists, m_custom, output_folder_created, entities,
                   analyzer_initialized, files_to_process, f_idx, file_count,
                   processed_count, entity_count, error_count, pf_results,
                   analyze_calls, outputs, counted>>
    /\ pf_log' = IF mpc' = "pf_analyze"
                THEN StepDone(pf_log, f_idx, "read", 0) ELSE pf_log
    /\ UNCHANGED <<clientVars, recognizerVars>>

\* process_file lines 113-126
PfAnalyze ==
    /\ mpc = "pf_analyze"
    /\ analyze_calls' = analyze_calls \cup
           {[file |-> f_idx, entities |-> entities, custom_entities |-> m_custom]}
    /\ \/ /\ \E n \in 0..MaxSpans : pf_results' = n
          /\ mpc' = "pf_anonymize"
          /\ UNCHANGED <<m_ret, error_log>>
       \/ /\ error_log' = Append(error_log, <<f_idx, "Error analyzing file">>)
          /\ m_ret' = Returned(0)
          /\ mpc' = "account"
          /\ UNCHANGED pf_results
    /\ UNCHANGED <<args, input_exists, m_custom, output_folder_created, entities,
                   analyzer_initialized, files_to_process, f_idx, file_count,
                   processed_count, entity_count, error_count,
                   files_read, outputs, counted>>
    /\ pf_log' = IF mpc' = "pf_anonymize"
                THEN StepDone(pf_log, f_idx, "analyze", pf_results') ELSE pf_log
    /\ UNCHANGED <<clientVars, recognizerVars>>

\* process_file lines 128-141
PfAnonymize ==
    /\ mpc = "pf_anonymize"
    /\ \/ /\ mpc' = "pf_write"
          /\ UNCHANGED <<m_ret, error_log>>
       \/ /\ error_log' = Append(error_log, <<f_idx, "Error anonymizing file">>)
          /\ m_ret' = Returned(0)
          /\ mpc' = "account"
    /\ UNCHANGED <<args, input_exists, m_custom, output_folder_created, entities,
                   analyzer_initialized, files_to_process, f_idx, file_count,
                   processed_count, entity_count, error_count, pf_results,
                   files_read, analyze_calls, outputs, counted>>
    /\ pf_log' = IF mpc' = "pf_write"
                THEN StepDone(pf_log, f_idx, "anonymize", pf_log[f_idx].spans) ELSE pf_log
    /\ UNCHANGED <<clientVars, recognizerVars>>

\* process_file lines 143-152
PfWrite ==
    /\ mpc = "pf_write"
    /\ \/ /\ outputs' = outputs \cup {f_idx}
          /\ m_ret' = Returned(pf_results)
          /\ error_log' = error_log
       \/ /\ error_log' = Append(error_log, <<f_idx, "Error writing anonymized file">>)
          /\ m_ret' = Returned(0)
          /\ outputs' = outputs
    /\ mpc' = "account"
    /\ UNCHANGED <<args, input_exists, m_custom, output_folder_created, entities,
                   analyzer_initialized, files_to_process, f_idx, file_count,
                   processed_count, entity_count, error_count, pf_results,
                   files_read, analyze_calls, counted>>
    /\ pf_log' = IF f_idx \in outputs'
                THEN StepDone(pf_log, f_idx, "write", pf_log[f_idx].spans) ELSE pf_log
    /\ UNCHANGED <<clientVars, recognizerVars>>

\* main lines 259-267: the counters, then the next pass of the loop
Account ==
    /\ mpc = "account"
    /\ IF m_ret.kind = "exception"
       THEN /\ error_count' = ErrorCountAfterException(error_count)
            /\ error_log' = Append(error_log, <<f_idx, "Uncaught exception processing">>)
            /\ counted' = Append(counted, "failed")
            /\ UNCHANGED <<processed_count, entity_count>>
       ELSE IF ~m_ret.none
       THEN /\ processed_count' = processed_count + 1
            /\ entity_count' = entity_count + m_ret.value
            /\ counted' = Append(counted, "processed")
            /\ UNCHANGED <<error_count, error_log>>
       ELSE /\ error_count' = error_count + 1
            /\ counted' = Append(counted, "failed")
            /\ UNCHANGED <<processed_count, entity_count, error_log>>
    /\ f_idx' = f_idx + 1
    /\ mpc' = "loop"
    /\ UNCHANGED <<args, input_exists, m_custom, output_folder_created, entities,
                   analyzer_initialized, files_to_process, file_count,
                   pf_results, m_ret, files_read, analyze_calls, outputs>>
    /\ UNCHANGED pf_log
    /\ UNCHANGED <<clientVars, recognizerVars>>

\* lines 269-272
Summary ==
    /\ mpc = "loop"
    /\ f_idx > Len(files_to_process)
    /\ mpc' = "done"
    /\ UNCHANGED <<args, input_exists, m_custom, output_folder_created, entities,
                   analyzer_initialized, files_to_process, f_idx, file_count,
                   processed_count, entity_count, error_count, pf_results, m_ret,
                   files_read, analyze_calls, outputs, error_log, counted>>
    /\ UNCHANGED pf_log
    /\ UNCHANGED <<clientVars, recognizerVars>>

MainNext ==
    \/ ParseArgs \/ LoadCustomEntities \/ MakeOutputFolder \/ GetEntities
    \/ CheckInputAndInit \/ Scan \/ NextFile \/ PfBinaryCheck \/ PfRead
    \/ PfAnalyze \/ PfAnonymize \/ PfWrite \/ Account \/ Summary

Init == ClientInit /\ RecognizerInit /\ MainInit

SpecClient == Init /\ [][ClientNext]_vars

SpecRecognizer == Init /\ [][RecognizerNext]_vars

SpecMain == Init /\ [][MainNext]_vars

AllCaughtErrors(calls) ==
    \A i \in 1..Len(calls) : calls[i].kind = "error" /\ Caught(calls[i].cls)

\* C1: with a credential present the provider is called at most 3 times; when
\* the first 3 calls all fail with an error the except clause retries on, the
\* third error is the one raised (no 4th call, nothing absorbed); and a
\* completion is returned only when a call succeeded, and it is the content
\* of that successful (last) call.
C1_AtMostThreeCallsThenRaise ==
    /\ Len(provider_calls) <= 3
    /\ (Len(provider_calls) = 3 /\ AllCaughtErrors(provider_calls))
          => /\ cpc = "raised"
             /\ c_result = [kind |-> "raised", value |-> provider_calls[3].cls]
    /\ c_result.kind = "returned"
          => /\ provider_calls # <<>>
             /\ provider_calls[Len(provider_calls)].kind = "ok"
             /\ c_result.value = provider_calls[Len(provider_calls)].content
             /\ \A i \in 1..(Len(provider_calls) - 1) : provider_calls[i].kind = "error"

\* C1 witness: three retried failures in a row, and the third one is raised.
C1_Witness ==
    /\ api_key = "set"
    /\ Len(provider_calls) = 3
    /\ AllCaughtErrors(provider_calls)
    /\ provider_calls[3].cls = "RateLimitError"
    /\ cpc = "raised"
    /\ slept = 6

\* Errors the specification calls non-retryable API errors.
NonRetryable == {"AuthenticationError", "BadRequestError"}

\* C2: a provider call that fails with a non-retryable API error
\* (authentication, bad request) is the last call: the function raises that
\* error on this first failure and does not call the provider again.
C2_NonRetryableRaisesAtOnce ==
    \A i \in 1..Len(provider_calls) :
        (provider_calls[i].kind = "error" /\ provider_calls[i].cls \in NonRetryable)
            => /\ i = Len(provider_calls)
               /\ cpc = "raised"
               /\ c_result = [kind |-> "raised", value |-> provider_calls[i].cls]

(***************************************************************************)
(* LlmRecognizer: claims                                                   *)
(***************************************************************************)

UnpackError == "TypeError: cannot unpack non-iterable NoneType object"
InvalidModel == "ValueError: Invalid Model Name"

\* The entries of the parsed response whose entity_text occurs in the text.
Verifiable == {i \in 1..Len(response_list) :
                   Find(a_text, response_list[i].entity_text) # -1}

\* C3: analyze drops each parsed entity whose entity_text does not occur
\* verbatim in the text and returns one span for every other parsed entity;
\* an unverifiable entity never makes the call fail.
C3_UnverifiableEntityDropped ==
    /\ a_error # UnpackError
    /\ (rpc \in {"loop", "returned"} /\ a_idx > Len(response_list))
          => Len(recognizer_results) = Cardinality(Verifiable)

\* C5: every span analyze returns has 0 <= start < end <= len(text), and
\* text[start:end] is the parsed entity_text at its first occurrence, the
\* empty entity_text included.
C5_SpanInsideText ==
    rpc = "returned" =>
        \A i \in 1..Len(recognizer_results) :
            LET r == recognizer_results[i]
                t == response_list[i].entity_text
            IN  /\ 0 <= r.start /\ r.start < r.end /\ r.end <= Len(a_text)
                /\ SubSeq(a_text, r.start + 1, r.end) = t
                /\ r.start = Find(a_text, t)

\* C6 as stated: a recognizer with an unsupported model name is never
\* constructed, and no analyze call fails for the model name.
C6_UnsupportedModelFailsAtConstruction ==
    /\ rpc # "new" => ModelSupported(model_name)
    /\ a_error # InvalidModel

\* C6 as amended: construction accepts every model name; a recognizer whose
\* name is unsupported fails in analyze, with ValueError("Invalid Model
\* Name"), before the completion client is called and before any span is
\* built, and a recognizer whose name is supported never fails that way.
C6_UnsupportedModelFailsInAnalyze ==
    /\ (rpc \notin {"new", "ready"} /\ ~(Find(model_name, GPT_4O) # -1))
          => /\ rpc = "raised"
             /\ a_error = InvalidModel
             /\ llm_calls = 0
             /\ response_list = <<>>
             /\ recognizer_results = <<>>
    /\ a_error = InvalidModel => ~(Find(model_name, GPT_4O) # -1)

\* C6 witness: a recognizer named "ner-english-large" was constructed and its
\* analyze call raised for the model name.
C6_Witness ==
    /\ model_name = NER_ENGLISH_LARGE
    /\ rpc = "raised"
    /\ a_error = InvalidModel
    /\ llm_calls = 0

\* C8: every span analyze returns has an entity_type of the requested list
\* (of the supported entities when the list was empty).
C8_OnlyRequestedTypes ==
    rpc = "returned" =>
        \A i \in 1..Len(recognizer_results) :
            recognizer_results[i].entity_type \in Range(a_entities)

(***************************************************************************)
(* main: claims                                                            *)
(***************************************************************************)

\* C4: a file that is unreadable or detected as binary is skipped and logged
\* as an error, and the iteration that handled it incremented error_count
\* (by one) and not processed_count.
C4_SkippedFileCountedFailed ==
    \A i \in 1..Len(counted) :
        (\/ <<i, "Skipping binary file">> \in Range(error_log)
         \/ <<i, "Error reading file">> \in Range(error_log))
            => counted[i] = "failed"

\* C7: with custom entity definitions loaded, the custom entity names are a
\* subset of the entities list passed to the analysis of every file, with
\* --entities and without it.
C7_CustomNamesRequested ==
    \A c \in analyze_calls :
        c.custom_entities.loaded => c.custom_entities.names \subseteq c.entities

BeforeCheck == {"start", "load_custom", "make_output", "get_entities", "check_input"}

CountOf(kind) == Cardinality({i \in 1..Len(counted) : counted[i] = kind})

\* C10: every found file is visited once and counted once, as processed or
\* as failed: at each loop boundary file_count = processed_count +
\* error_count, inside an iteration exactly the file in work is uncounted,
\* and at the end file_count is the number of files found.
C10_EveryFileCountedOnce ==
    /\ processed_count = CountOf("processed")
    /\ error_count = CountOf("failed")
    /\ mpc \in {"loop", "done"}
          => /\ file_count = processed_count + error_count
             /\ Len(counted) = file_count
             /\ f_idx = file_count + 1
    /\ mpc \in {"pf_binary", "pf_read", "pf_analyze", "pf_anonymize", "pf_write", "account"}
          => /\ file_count = processed_count + error_count + 1
             /\ f_idx = file_count
    /\ mpc = "done" => file_count = Len(files_to_process)

\* C10 witness: a run over two files ended, the first one's exception escaped
\* process_file, the second one was written.
C10_Witness ==
    /\ mpc = "done"
    /\ Len(files_to_process) = 2
    /\ counted = <<"failed", "processed">>
    /\ outputs = {2}
    /\ file_count = 2 /\ processed_count = 1 /\ error_count = 1

AllSteps == <<"binary_check", "read", "analyze", "anonymize", "write">>

RECURSIVE SumSpans(_, _)
SumSpans(log, S) ==
    IF S = {} THEN 0
    ELSE LET i == CHOOSE x \in S : TRUE
         IN  log[i].spans + SumSpans(log, S \ {i})

\* C11: process_file writes the output of a file only after the binary
\* check, the read, the analysis and the anonymization of that file
\* succeeded, in that order; when one of them fails no output is written and
\* process_file returns 0; and entity_count is the sum of the span counts of
\* the counted files whose output was written.
C11_WriteOnlyAfterAllSteps ==
    /\ \A i \in outputs :
          /\ i \in 1..Len(pf_log)
          /\ pf_log[i].steps = AllSteps
          /\ files_to_process[i] \notin {"binary", "unreadable"}
          /\ i \in files_read
          /\ \E c \in analyze_calls : c.file = i
    /\ \A i \in 1..Len(pf_log) :
          /\ \E n \in 0..Len(AllSteps) : pf_log[i].steps = SubSeq(AllSteps, 1, n)
          /\ i \notin outputs => pf_log[i].steps # AllSteps
    /\ (mpc = "account" /\ m_ret.kind = "value")
          => m_ret.value = IF f_idx \in outputs THEN pf_log[f_idx].spans ELSE 0
    /\ (mpc = "account" /\ m_ret.kind = "exception") => f_idx \notin outputs
    /\ entity_count = SumSpans(pf_log, outputs \cap (1..Len(counted)))

\* C11 witness: of two text files the first failed in anonymization after a
\* span was found and has no output, the second was written with one span,
\* and the run's entity total is 1.
C11_Witness ==
    /\ mpc = "done"
    /\ Len(files_to_process) = 2
    /\ pf_log[1] = [steps |-> <<"binary_check", "read", "analyze">>, spans |-> 1]
    /\ pf_log[2] = [steps |-> AllSteps, spans |-> 1]
    /\ outputs = {2}
    /\ entity_count = 1

====
